---------------------------- MODULE Spec2Model ----------------------------
(***************************************************************************)
(* The graph analytics pipeline of the social-network bottleneck detector. *)
(*                                                                         *)
(* The program's state is the Neo4j database: User nodes, FOLLOWS          *)
(* relationships and the per-node properties the algorithms write.  Three  *)
(* kinds of client act on it: the ingestion scripts (scripts/              *)
(* import_data.py), the API process (backend/app/api/v1) and the batch     *)
(* script run_algorithms.py.                                               *)
(*                                                                         *)
(* Granularity.  Every session.run / execute_query call is one auto-commit *)
(* transaction, and is one atomic step here: a query that raises leaves no *)
(* write behind.  A Cypher query is evaluated clause by clause; an         *)
(* aggregation (WITH ... count/sum/collect) consumes all its input rows    *)
(* before the next clause runs, so the SET after it reads nothing it wrote *)
(* itself.                                                                 *)
(*                                                                         *)
(* Numbers.  Cypher floats are modelled in fixed point: the integer x      *)
(* stands for x / Scale, and a float division is an integer division.      *)
(* A property that is absent (null) is the value Null.                     *)
(***************************************************************************)
EXTENDS Integers, Sequences, FiniteSets, TLC

\* ------------------------------------------------------------------ bounds
MaxNodes == 2
MaxImports == 3
MaxAlgQueries == 4
MaxConcurrentQueries == 2
MaxFileQueries == 5
MaxChainQueries == 2
MaxCacheCalls == 3
MaxWords == 2
MaxSampleSize == 2
MaxParamQueries == 2

\* --------------------------------------------------------------- constants
Scale == 1000
Null == 0 - 1
BaseRank == 150
DampingPct == 85
ApiPageRankIterations == 20
ScriptPageRankIterations == 10
ScriptLabelIterations == 5
MaxBridged == 5
ApiThreshold == 500
ScriptThreshold == 300
WBetweenness == 4
WPagerank == 3
WBridge == 3
SampleUsers == 8
\* settings.bottleneck_score_weights, in tenths
bottleneck_score_weights == [betweenness |-> 4, pagerank |-> 3, bridge_score |-> 3]

\* The ids a node may have, and the ids the one-row import files use.
NodeIds == 1..SampleUsers
ImportIds == 1..MaxNodes
FollowingCounts == {0, 2}
EdgeInputs == {e \in ImportIds \X ImportIds : e[1] # e[2]}

AVAILABLE_ALGORITHMS == {"pagerank", "betweenness", "louvain", "bottleneck", "degree"}
RequestNames == AVAILABLE_ALGORITHMS \cup {"invalid_algo"}

VARIABLES
    nodes,        \* the ids of the (:User) nodes that exist
    follows,      \* follows[<<s, t>>]: number of (s)-[:FOLLOWS]->(t) relationships
    store,        \* store[n]: the properties of node n
    imports,      \* the ingestion batches the scripts reported as imported so far
    algQueries,   \* neo4j_service.execute_query calls made by run_algorithm so far
    resp,         \* the last response of POST /algorithms/run/{name}
    params,       \* the query parameters of the last POST /algorithms/run/{name}
    scriptPc,     \* run_algorithms.py: the session.run calls that have returned
    scriptStatus, \* run_algorithms.py: "idle", "running", "done" or "failed"
    printed,      \* run_algorithms.py: the lines printed so far
    lastRead,     \* the last answer of GET /users/{user_id}, and when it was read
    ranSinceChange, \* history: the stages among pagerank, betweenness, louvain that
                  \* completed since a node or a relationship was last created
    cache,        \* cache_service: its Redis client, its connection flag, Redis's keys
    nlq           \* the last response of POST /nlq/query

vars == <<nodes, follows, store, imports, algQueries, resp, params, scriptPc, scriptStatus,
          printed, lastRead, ranSinceChange, cache, nlq>>
graphVars == <<nodes, follows, store>>
apiVars == <<algQueries, resp, params>>
scriptVars == <<scriptPc, scriptStatus, printed>>
serviceVars == <<cache, nlq>>

\* ------------------------------------------------------------ the database
NoProps ==
    [following_count |-> Null, pagerank |-> Null, betweenness_centrality |-> Null,
     community_id |-> Null, bridge_score |-> Null, bottleneck_score |-> Null,
     is_bottleneck |-> "null", out_degree |-> Null, in_degree |-> Null,
     degree_centrality |-> Null]

RECURSIVE SumF(_, _)
SumF(f, S) ==
    IF S = {} THEN 0
    ELSE LET x == CHOOSE y \in S : TRUE IN f[x] + SumF(f, S \ {x})

\* max() over the non-null values of f on S; null when there is none
MaxF(f, S) ==
    LET vals == {f[x] : x \in {y \in S : f[y] # Null}}
    IN  IF vals = {} THEN Null ELSE CHOOSE m \in vals : \A v \in vals : v <= m

\* avg() over the non-null values of f on S; null when there is none
AvgF(f, S) ==
    LET some == {y \in S : f[y] # Null}
    IN  IF some = {} THEN Null ELSE SumF(f, some) \div Cardinality(some)

Mult(s, t) == follows[<<s, t>>]

\* count of (u)-[r:FOLLOWS]->() and of (u)<-[r:FOLLOWS]-() relationships
OutRels(u) == SumF([t \in NodeIds |-> Mult(u, t)], nodes)
InRels(u) == SumF([s \in NodeIds |-> Mult(s, u)], nodes)

\* rows of MATCH (u)-[:FOLLOWS]-(v) for a fixed pair u, v
Links(u, v) == IF u = v THEN Mult(u, u) ELSE Mult(u, v) + Mult(v, u)

Neighbours(u) == {v \in nodes : Links(u, v) > 0}

\* -------------------------------------------------------------- ingestion
\* MERGE (u:User {id}) SET u.following_count = ... : creates the node when it
\* is absent, and overwrites only the imported properties when it exists.
import_users(n, fc) ==
    /\ imports' = imports + 1
    /\ nodes' = nodes \cup {n}
    /\ store' = [store EXCEPT ![n].following_count = fc]
    /\ ranSinceChange' = IF n \in nodes THEN ranSinceChange ELSE {}
    /\ UNCHANGED <<follows, apiVars, scriptVars, lastRead, serviceVars>>

\* MATCH (source) MATCH (target) MERGE (source)-[:FOLLOWS]->(target): a row
\* whose endpoint is unknown matches nothing and is dropped without a word.
import_edges(s, t) ==
    /\ imports' = imports + 1
    /\ follows' = IF s \in nodes /\ t \in nodes /\ Mult(s, t) = 0
                  THEN [follows EXCEPT ![<<s, t>>] = 1]
                  ELSE follows
    /\ ranSinceChange' = IF follows' = follows THEN ranSinceChange ELSE {}
    /\ UNCHANGED <<nodes, store, apiVars, scriptVars, lastRead, serviceVars>>

\* ------------------------------------------------------- the API's stages
Div(x, y) == x \div y

\* _run_pagerank's fallback query.  `WITH u, sum(...)` groups by u alone, so
\* the 20 rows UNWIND makes per follower are summed into one incomingRank and
\* u.pagerank is SET once, from the 1.0 / totalNodes every node was given.
ApiIncomingRank(st, u) ==
    LET init == Div(Scale, Cardinality(nodes))
        share(v) == Div(init, IF st[v].following_count > 0
                              THEN st[v].following_count ELSE 1)
    IN  ApiPageRankIterations * SumF([v \in NodeIds |-> Mult(v, u) * share(v)], nodes)

DampedOnly(incomingRank) == Div(DampingPct * incomingRank, 100)

Damped(incomingRank) == BaseRank + Div(DampingPct * incomingRank, 100)

run_pagerank(st) ==
    [n \in NodeIds |->
        IF n \in nodes
        THEN [st[n] EXCEPT !.pagerank = Damped(ApiIncomingRank(st, n))]
        ELSE st[n]]

ApproxBetweennessByDegree(out, in) ==
    IF out + in > 0 THEN Div(out * in * Scale, out + in) ELSE 0

\* toFloat(outDegree * inDegree) / (degree * degree), 0.0 for an isolated node
ApproxBetweenness(out, in) ==
    IF out + in > 0 THEN Div(out * in * Scale, (out + in) * (out + in)) ELSE 0

\* The rows of MATCH (u) OPTIONAL MATCH (u)-[outRel:FOLLOWS]->() OPTIONAL MATCH
\* (u)<-[inRel:FOLLOWS]-() for one u: every out relationship beside every in
\* relationship, a relationship being <<source, target, which of the parallel
\* ones>>; an OPTIONAL MATCH that finds nothing yields one null.
NoRel == <<0, 0, 0>>
OutRelSet(u) == {r \in {u} \X nodes \X (1..MaxImports) : r[3] <= Mult(r[1], r[2])}
InRelSet(u) == {r \in nodes \X {u} \X (1..MaxImports) : r[3] <= Mult(r[1], r[2])}
Optional(rels) == IF rels = {} THEN {NoRel} ELSE rels
DegreeRows(u) == Optional(OutRelSet(u)) \X Optional(InRelSet(u))

CountAll(rows, col) == Cardinality({row \in rows : row[col] # NoRel})

\* count(DISTINCT outRel), count(DISTINCT inRel): nulls are not counted
CountDistinct(rows, col) == Cardinality({row[col] : row \in rows} \ {NoRel})

run_betweenness_with_degrees(st) ==
    [n \in NodeIds |->
        IF n \in nodes
        THEN LET outDegree == CountDistinct(DegreeRows(n), 1)
                 inDegree == CountDistinct(DegreeRows(n), 2)
             IN  [st[n] EXCEPT
                    !.betweenness_centrality = ApproxBetweenness(outDegree, inDegree),
                    !.out_degree = outDegree,
                    !.in_degree = inDegree]
        ELSE st[n]]

run_betweenness(st) ==
    [n \in NodeIds |->
        IF n \in nodes
        THEN LET outDegree == CountDistinct(DegreeRows(n), 1)
                 inDegree == CountDistinct(DegreeRows(n), 2)
             IN  [st[n] EXCEPT
                    !.betweenness_centrality = ApproxBetweenness(outDegree, inDegree)]
        ELSE st[n]]

run_degree(st) ==
    [n \in NodeIds |->
        IF n \in nodes
        THEN LET outDegree == CountDistinct(DegreeRows(n), 1)
                 inDegree == CountDistinct(DegreeRows(n), 2)
             IN  [st[n] EXCEPT !.out_degree = outDegree,
                               !.in_degree = inDegree,
                               !.degree_centrality = (outDegree + inDegree) * Scale]
        ELSE st[n]]


\* One pass of label propagation over the labelling the store holds: node u
\* takes the community of its heaviest group of neighbours.  ORDER BY weight
\* DESC leaves the order of equal weights open, so every heaviest label is a
\* possible outcome; collect() skips null labels; a node without neighbours
\* yields no row and keeps its label.
LabelWeight(st, u, c) ==
    SumF([v \in NodeIds |-> IF st[v].community_id = c THEN Links(u, v) ELSE 0],
         Neighbours(u))

DominantCommunities(st, u) ==
    LET labels == {st[v].community_id : v \in Neighbours(u)} \ {Null}
    IN  IF labels = {} THEN {Null}
        ELSE {c \in labels :
                \A d \in labels : LabelWeight(st, u, d) <= LabelWeight(st, u, c)}

\* upTo[k]: the labellings possible once the nodes 1..k have taken their label
PropagateLabels(st) ==
    LET upTo[k \in 0..SampleUsers] ==
            IF k = 0 THEN {st}
            ELSE IF k \in nodes /\ Neighbours(k) # {}
                 THEN {[labelled EXCEPT ![k].community_id = label] :
                          labelled \in upTo[k - 1],
                          label \in DominantCommunities(st, k)}
                 ELSE upTo[k - 1]
    IN  upTo[SampleUsers]

\* SET u.community_id = u.id on every node
InitLabels(st) ==
    [n \in NodeIds |->
        IF n \in nodes THEN [st[n] EXCEPT !.community_id = n] ELSE st[n]]

\* _run_louvain: `WITH u, neighborCommunity, count(*)` drops the UNWIND
\* variable, so the 10 iterations only multiply every weight by 10 and the
\* labels are propagated once, from the initial labelling.
run_louvain(st) == PropagateLabels(InitLabels(st))

\* The scoring statement shared by _run_bottleneck_score and the batch script.
Scorable(st) ==
    {u \in nodes : st[u].pagerank # Null /\ st[u].betweenness_centrality # Null}

BridgedCommunities(st, u) ==
    Cardinality({st[v].community_id :
                    v \in {w \in Neighbours(u) :
                             /\ st[w].community_id # Null
                             /\ st[u].community_id # Null
                             /\ st[w].community_id # st[u].community_id}})

Normalised(x, max) == IF max > 0 THEN Div(x * Scale, max) ELSE 0

BridgeScore(st, u) == Div(BridgedCommunities(st, u) * Scale, MaxBridged)

CompositeUnweighted(normBetweenness, normPagerank, bridgeScore) ==
    Div(normBetweenness + normPagerank + bridgeScore, 3)

Composite(normBetweenness, normPagerank, bridgeScore) ==
    Div(WBetweenness * normBetweenness + WPagerank * normPagerank
        + WBridge * bridgeScore, 10)

BottleneckScore(st, u) ==
    LET maxBetweenness == MaxF([n \in NodeIds |-> st[n].betweenness_centrality], nodes)
        maxPagerank == MaxF([n \in NodeIds |-> st[n].pagerank], nodes)
    IN  Composite(Normalised(st[u].betweenness_centrality, maxBetweenness),
                  Normalised(st[u].pagerank, maxPagerank),
                  BridgeScore(st, u))

ScoreNodes(st, threshold) ==
    [n \in NodeIds |->
        IF n \in Scorable(st)
        THEN [st[n] EXCEPT
                !.bridge_score = BridgeScore(st, n),
                !.bottleneck_score = BottleneckScore(st, n),
                !.is_bottleneck = IF BottleneckScore(st, n) > threshold
                                  THEN "true" ELSE "false"]
        ELSE st[n]]

run_bottleneck_score(st) == ScoreNodes(st, ApiThreshold)

\* --------------------------------------------- what each stage returns
\* Every stage's query ends in a RETURN of aggregates without a grouping key,
\* which yields exactly one row even over no node at all: `if results:` is
\* always taken.
PagerankResult(st) ==
    [nodes_processed |-> Cardinality(nodes),
     summary |-> [avg_score |-> AvgF([n \in NodeIds |-> st[n].pagerank], nodes),
                  max_score |-> MaxF([n \in NodeIds |-> st[n].pagerank], nodes)],
     message |-> "PageRank scores calculated and stored"]

BetweennessResult(st) ==
    [nodes_processed |-> Cardinality(nodes),
     summary |-> [avg_score |->
                      AvgF([n \in NodeIds |-> st[n].betweenness_centrality], nodes),
                  max_score |->
                      MaxF([n \in NodeIds |-> st[n].betweenness_centrality], nodes)],
     message |-> "Betweenness centrality approximated and stored"]

MemberCount(st, c) == Cardinality({n \in nodes : st[n].community_id = c})

LouvainResult(st) ==
    LET groups == {st[n].community_id : n \in nodes}
        found == groups \ {Null}
        sizes == [c \in groups |-> MemberCount(st, c)]
    IN  [nodes_processed |-> Cardinality(found),
         summary |-> [communities_found |-> Cardinality(found),
                      avg_community_size |->
                          IF groups = {} THEN Null
                          ELSE Div(Cardinality(nodes) * Scale, Cardinality(groups)),
                      max_community_size |->
                          IF groups = {} THEN Null
                          ELSE CHOOSE m \in {sizes[c] : c \in groups} :
                                  \A c \in groups : sizes[c] <= m],
         message |-> "Community detection completed"]

\* `st` is the store the scoring statement read, `st2` the one it left
BottleneckResult(st, st2) ==
    [nodes_processed |-> Cardinality(Scorable(st)),
     summary |-> [avg_bottleneck_score |->
                      AvgF([n \in NodeIds |-> st2[n].bottleneck_score], Scorable(st)),
                  bottleneck_count |->
                      Cardinality({n \in Scorable(st) : st2[n].is_bottleneck = "true"})],
     message |-> "Bottleneck scores calculated"]

DegreeResult(st) ==
    [nodes_processed |-> Cardinality(nodes),
     summary |-> [avg_degree |->
                      AvgF([n \in NodeIds |-> st[n].degree_centrality], nodes),
                  max_degree |->
                      MaxF([n \in NodeIds |-> st[n].degree_centrality], nodes)],
     message |-> "Degree centrality calculated"]

\* The stores a stage may leave, each with the dict the stage returns.
StageOutcomes(name, st) ==
    CASE name = "pagerank" ->
            {[store |-> run_pagerank(st), result |-> PagerankResult(run_pagerank(st))]}
      [] name = "betweenness" ->
            {[store |-> run_betweenness(st),
              result |-> BetweennessResult(run_betweenness(st))]}
      [] name = "louvain" ->
            {[store |-> st2, result |-> LouvainResult(st2)] : st2 \in run_louvain(st)}
      [] name = "bottleneck" ->
            {[store |-> run_bottleneck_score(st),
              result |-> BottleneckResult(st, run_bottleneck_score(st))]}
      [] name = "degree" ->
            {[store |-> run_degree(st), result |-> DegreeResult(run_degree(st))]}

\* The query parameters of POST /algorithms/run/{name}: write_property: bool =
\* True, sample_size: Optional[int] = None (Null stands for None).
SampleSizes == {Null} \cup (1..MaxSampleSize)
DefaultParams == [write_property |-> TRUE, sample_size |-> Null]

\* The dispatch, were each stage to run its SET clause only when
\* write_property is true.
DispatchHonouringFlag(name, st, write_property, sample_size) ==
    IF write_property
    THEN StageOutcomes(name, st)
    ELSE {[store |-> st, result |-> o.result] : o \in StageOutcomes(name, st)}

\* The dispatch of lines 54-63 hands write_property to every stage, and
\* sample_size to _run_betweenness; no stage reads either parameter.
Dispatch(name, st, write_property, sample_size) == StageOutcomes(name, st)

\* execute_query calls one run makes: _run_pagerank first tries
\* gds.pageRank.stream('social-graph'); nothing in the repository creates that
\* projection, so the call raises and the fallback query runs.
QueriesOf(name) == IF name = "pagerank" THEN 2 ELSE 1

\* --------------------------------------------------- POST /algorithms/run
Prerequisites == {"pagerank", "betweenness", "louvain"}
Faults == {"ServiceUnavailable"}
NoSummary == [none |-> Null]
NoResponse ==
    [algorithm |-> "", http |-> 0, status |-> "", nodes_processed |-> 0,
     results_summary |-> NoSummary, message |-> ""]

BadRequest(name) ==
    [algorithm |-> name, http |-> 400, status |-> "", nodes_processed |-> 0,
     results_summary |-> NoSummary, message |-> "Unknown algorithm"]

Completed(name, result) ==
    [algorithm |-> name, http |-> 200, status |-> "completed",
     nodes_processed |-> result.nodes_processed,
     results_summary |-> result.summary, message |-> result.message]

\* except Exception as e: the summary is {} and the message str(e)
EmptySummary == <<>>
Failed(name, e) ==
    [algorithm |-> name, http |-> 200, status |-> "failed", nodes_processed |-> 0,
     results_summary |-> EmptySummary, message |-> e]

\* run_algorithm without its `except Exception` clause: what the stage raises
\* reaches the framework, which answers 500.
run_algorithm_uncaught(name, fault) ==
    IF name \notin AVAILABLE_ALGORITHMS
    THEN /\ resp' = BadRequest(name)
         /\ params' = DefaultParams
         /\ UNCHANGED <<graphVars, imports, algQueries, scriptVars, lastRead, serviceVars,
                        ranSinceChange>>
    ELSE /\ algQueries' = algQueries + QueriesOf(name)
         /\ params' = DefaultParams
         /\ IF fault # "none"
            THEN /\ resp' = [algorithm |-> name, http |-> 500, status |-> "",
                             nodes_processed |-> 0, results_summary |-> NoSummary,
                             message |-> fault]
                 /\ UNCHANGED <<store, ranSinceChange>>
            ELSE /\ \E o \in StageOutcomes(name, store) :
                        /\ store' = o.store
                        /\ resp' = Completed(name, o.result)
                 /\ ranSinceChange' = ranSinceChange \cup ({name} \cap Prerequisites)
         /\ UNCHANGED <<nodes, follows, imports, scriptVars, lastRead, serviceVars>>

\* run_algorithm without the membership test of lines 45-49: an unknown name
\* falls through the dispatch to its `else`, whose HTTPException the
\* `except Exception` clause turns into a failed result.
run_algorithm_unchecked(name, fault) ==
    IF name \notin AVAILABLE_ALGORITHMS
    THEN /\ resp' = Failed(name, "Algorithm not implemented")
         /\ params' = DefaultParams
         /\ UNCHANGED <<graphVars, imports, algQueries, scriptVars, lastRead, serviceVars,
                        ranSinceChange>>
    ELSE /\ algQueries' = algQueries + QueriesOf(name)
         /\ params' = DefaultParams
         /\ IF fault # "none"
            THEN /\ resp' = Failed(name, fault)
                 /\ UNCHANGED <<store, ranSinceChange>>
            ELSE /\ \E o \in StageOutcomes(name, store) :
                        /\ store' = o.store
                        /\ resp' = Completed(name, o.result)
                 /\ ranSinceChange' = ranSinceChange \cup ({name} \cap Prerequisites)
         /\ UNCHANGED <<nodes, follows, imports, scriptVars, lastRead, serviceVars>>

\* The handler with its query parameters.  `fault` is "none", or the
\* exception the stage's query raises.
run_algorithm_request(name, write_property, sample_size, fault) ==
    /\ params' = [write_property |-> write_property, sample_size |-> sample_size]
    /\ IF name \notin AVAILABLE_ALGORITHMS
       THEN /\ resp' = BadRequest(name)
            /\ UNCHANGED <<graphVars, imports, algQueries, scriptVars, lastRead,
                           serviceVars, ranSinceChange>>
       ELSE /\ algQueries' = algQueries + QueriesOf(name)
            /\ IF fault # "none"
               THEN /\ resp' = Failed(name, fault)
                    /\ UNCHANGED <<store, ranSinceChange>>
               ELSE /\ \E o \in Dispatch(name, store, write_property, sample_size) :
                           /\ store' = o.store
                           /\ resp' = Completed(name, o.result)
                    /\ ranSinceChange' = ranSinceChange \cup ({name} \cap Prerequisites)
            /\ UNCHANGED <<nodes, follows, imports, scriptVars, lastRead, serviceVars>>

\* The request without query parameters: write_property and sample_size have
\* their defaults.
run_algorithm(name, fault) ==
    run_algorithm_request(name, DefaultParams.write_property,
                          DefaultParams.sample_size, fault)

\* ------------------------------------------------------ run_algorithms.py
\* The script's session.run calls, in program order.
PageRankInitAt == 1
PageRankLastAt == PageRankInitAt + ScriptPageRankIterations
LabelInitAt == PageRankLastAt + 1
LabelLastAt == LabelInitAt + ScriptLabelIterations
BetweennessAt == LabelLastAt + 1
BottleneckAt == BetweennessAt + 1
StatsAt == BottleneckAt + 1

\* The script with its scoring statement moved ahead of the betweenness one.
ScriptStatementScoringEarly(k) ==
    CASE k = PageRankInitAt -> "pagerank_init"
      [] k > PageRankInitAt /\ k <= PageRankLastAt -> "pagerank_iter"
      [] k = LabelInitAt -> "label_init"
      [] k > LabelInitAt /\ k <= LabelLastAt -> "label_iter"
      [] k = BetweennessAt -> "bottleneck"
      [] k = BottleneckAt -> "betweenness"
      [] k = StatsAt -> "stats"

ScriptStatement(k) ==
    CASE k = PageRankInitAt -> "pagerank_init"
      [] k > PageRankInitAt /\ k <= PageRankLastAt -> "pagerank_iter"
      [] k = LabelInitAt -> "label_init"
      [] k > LabelInitAt /\ k <= LabelLastAt -> "label_iter"
      [] k = BetweennessAt -> "betweenness"
      [] k = BottleneckAt -> "bottleneck"
      [] k = StatsAt -> "stats"

\* SET u.pagerank = 1.0 / totalNodes
script_pagerank_init(st) ==
    [n \in NodeIds |->
        IF n \in nodes
        THEN [st[n] EXCEPT !.pagerank = Div(Scale, Cardinality(nodes))]
        ELSE st[n]]

\* COALESCE(sum(follower.pagerank), 0): one term per FOLLOWS relationship
\* into u, a follower without pagerank adding nothing
ScriptIncomingRank(st, u) ==
    SumF([v \in NodeIds |->
            IF st[v].pagerank = Null THEN 0 ELSE Mult(v, u) * st[v].pagerank],
         nodes)

script_pagerank_iter(st) ==
    [n \in NodeIds |->
        IF n \in nodes
        THEN [st[n] EXCEPT !.pagerank = Damped(ScriptIncomingRank(st, n))]
        ELSE st[n]]

script_betweenness(st) ==
    [n \in NodeIds |->
        IF n \in nodes
        THEN [st[n] EXCEPT
                !.betweenness_centrality = ApproxBetweenness(OutRels(n), InRels(n)),
                !.out_degree = OutRels(n),
                !.in_degree = InRels(n)]
        ELSE st[n]]

script_bottleneck(st) == ScoreNodes(st, ScriptThreshold)

\* The stores statement k may leave.
ScriptEffect(k, st) ==
    CASE ScriptStatement(k) = "pagerank_init" -> {script_pagerank_init(st)}
      [] ScriptStatement(k) = "pagerank_iter" -> {script_pagerank_iter(st)}
      [] ScriptStatement(k) = "label_init" -> {InitLabels(st)}
      [] ScriptStatement(k) = "label_iter" -> PropagateLabels(st)
      [] ScriptStatement(k) = "betweenness" -> {script_betweenness(st)}
      [] ScriptStatement(k) = "bottleneck" -> {script_bottleneck(st)}
      [] ScriptStatement(k) = "stats" -> {st}

\* The stores a whole run of the script may end with when it starts on st.
ScriptRun(st) ==
    LET after[k \in 0..StatsAt] ==
            IF k = 0 THEN {st}
            ELSE UNION {ScriptEffect(k, s) : s \in after[k - 1]}
    IN  after[StatsAt]

\* What the script prints right before and right after statement k.
PrintedBefore(k) ==
    CASE k = PageRankInitAt -> <<"Running PageRank...">>
      [] k = LabelInitAt -> <<"Running Community Detection...">>
      [] k = BetweennessAt -> <<"Setting Betweenness...">>
      [] k = BottleneckAt -> <<"Calculating Bottleneck scores...">>
      [] OTHER -> <<>>

PrintedAfter(k) ==
    CASE k = PageRankLastAt -> <<"PageRank done!">>
      [] k = LabelLastAt -> <<"Communities done!">>
      [] k = BetweennessAt -> <<"Betweenness done!">>
      [] k = BottleneckAt -> <<"Bottleneck scores done!">>
      [] k = StatsAt -> <<"Stats", "All algorithms completed!">>
      [] OTHER -> <<>>

\* The stage whose last statement is statement k.
StageCompletedBy(k) ==
    CASE k = PageRankLastAt -> {"pagerank"}
      [] k = LabelLastAt -> {"louvain"}
      [] k = BetweennessAt -> {"betweenness"}
      [] OTHER -> {}

\* The next session.run call returns.
script_step ==
    /\ scriptStatus \in {"idle", "running"}
    /\ \E st2 \in ScriptEffect(scriptPc + 1, store) : store' = st2
    /\ scriptPc' = scriptPc + 1
    /\ scriptStatus' = IF scriptPc + 1 = StatsAt THEN "done" ELSE "running"
    /\ printed' = printed \o PrintedBefore(scriptPc + 1) \o PrintedAfter(scriptPc + 1)
    /\ ranSinceChange' = ranSinceChange \cup StageCompletedBy(scriptPc + 1)
    /\ UNCHANGED <<nodes, follows, imports, apiVars, lastRead, serviceVars>>

\* The script run inside one transaction that a failure rolls back: the
\* attributes its statements wrote are gone.
script_raise_rollback ==
    /\ scriptStatus \in {"idle", "running"}
    /\ scriptStatus' = "failed"
    /\ printed' = printed \o PrintedBefore(scriptPc + 1)
    /\ store' = [n \in NodeIds |->
                    [NoProps EXCEPT !.following_count = store[n].following_count]]
    /\ UNCHANGED <<nodes, follows, imports, apiVars, scriptPc, lastRead, serviceVars, ranSinceChange>>

\* The next session.run call raises: nothing catches it, the script ends, and
\* what the earlier statements committed stays.
script_raise ==
    /\ scriptStatus \in {"idle", "running"}
    /\ scriptStatus' = "failed"
    /\ printed' = printed \o PrintedBefore(scriptPc + 1)
    /\ UNCHANGED <<graphVars, imports, apiVars, scriptPc, lastRead, serviceVars, ranSinceChange>>

\* ------------------------------------------------------------ readers
\* What a node looks like to a query that returns u {.*}
UserMap(st, n) == [id |-> n, props |-> st[n]]

\* Neo4jService.get_user_by_id: the node's properties, or nothing
get_user_by_id(user_id) ==
    IF user_id \in nodes THEN <<UserMap(store, user_id)>> ELSE <<>>

\* GET /users/{user_id}; `at` is where the batch script stood when the query ran
get_user(user_id) ==
    /\ lastRead' = [at |-> scriptPc, users |-> get_user_by_id(user_id)]
    /\ UNCHANGED <<graphVars, imports, apiVars, scriptVars, ranSinceChange, serviceVars>>

Scored(st) == {n \in nodes : st[n].bottleneck_score # Null}

\* Neo4jService.get_top_bottlenecks: the scored nodes by descending score, cut
\* at `limit`; ORDER BY leaves the order of equal scores open, so this is the
\* set of lists the query may return.
get_top_bottlenecks(limit) ==
    LET k == IF limit < Cardinality(Scored(store)) THEN limit
             ELSE Cardinality(Scored(store))
        lists == {l \in [1..k -> Scored(store)] :
                    /\ \A i, j \in 1..k : i # j => l[i] # l[j]
                    /\ \A i, j \in 1..k :
                          i < j => store[l[i]].bottleneck_score
                                     >= store[l[j]].bottleneck_score
                    /\ \A n \in Scored(store) :
                          (\A i \in 1..k : l[i] # n) =>
                             \A i \in 1..k : store[l[i]].bottleneck_score
                                               >= store[n].bottleneck_score}
    IN  {[i \in 1..k |-> UserMap(store, l[i])] : l \in lists}

\* ------------------------------------------------------- cache_service.py
Prefixes == {"graph_stats", "bottlenecks"}
CallArgs == {1, 2}
\* _make_key: "bottleneck:{prefix}:{hash of the arguments}"
CacheKeys == Prefixes \X CallArgs
make_key(prefix, args) == <<prefix, args>>
\* what a wrapped function returns
Values == {"stats", "list"}
None == "None"

\* CacheService.__init__, and a Redis that holds no key
NewCache ==
    [client |-> FALSE, connected |-> FALSE,
     redis |-> [k \in CacheKeys |-> None],
     requests |-> 0, executions |-> 0, invalidated |-> {},
     last |-> [op |-> "init", ret |-> None, executed |-> FALSE]]

\* The client property: the first access creates the client and pings; the
\* ping answers or raises ConnectionError or TimeoutError.
client(c) ==
    IF c.client THEN {c}
    ELSE {[c EXCEPT !.client = TRUE, !.connected = pong] : pong \in BOOLEAN}

\* Each method: the caches and return values it may end with; a Redis
\* command that raises is caught and answered like a miss.
cache_get_unguarded(c, key) ==
    UNION {{[cache |-> c2, ret |-> c2.redis[key]], [cache |-> c2, ret |-> None]} :
              c2 \in client(c)}

cache_get(c, key) ==
    IF ~c.connected THEN {[cache |-> c, ret |-> None]}
    ELSE UNION {{[cache |-> c2, ret |-> c2.redis[key]], [cache |-> c2, ret |-> None]} :
                   c2 \in client(c)}

cache_set(c, key, value) ==
    IF ~c.connected THEN {[cache |-> c, ret |-> FALSE]}
    ELSE UNION {{[cache |-> [c2 EXCEPT !.redis[key] = value], ret |-> TRUE],
                 [cache |-> c2, ret |-> FALSE]} : c2 \in client(c)}

cache_delete(c, key) ==
    IF ~c.connected THEN {[cache |-> c, ret |-> FALSE]}
    ELSE UNION {{[cache |-> [c2 EXCEPT !.redis[key] = None], ret |-> TRUE],
                 [cache |-> c2, ret |-> FALSE]} : c2 \in client(c)}

\* scan_iter(match = "bottleneck:{prefix}:*") and delete(*keys)
clear_prefix(c, prefix) ==
    IF ~c.connected THEN {[cache |-> c, ret |-> 0]}
    ELSE UNION {LET keys == {k \in CacheKeys : k[1] = prefix /\ c2.redis[k] # None}
                IN  {[cache |-> [c2 EXCEPT !.redis = [k \in CacheKeys |->
                                    IF k \in keys THEN None ELSE c2.redis[k]]],
                      ret |-> Cardinality(keys)],
                     [cache |-> c2, ret |-> 0]} : c2 \in client(c)}

clear_all(c) ==
    IF ~c.connected THEN {[cache |-> c, ret |-> FALSE]}
    ELSE UNION {{[cache |-> [c2 EXCEPT !.redis = [k \in CacheKeys |-> None]],
                  ret |-> TRUE],
                 [cache |-> c2, ret |-> FALSE]} : c2 \in client(c)}

\* The wrapper of cached(prefix): a hit is returned as it is; on a miss the
\* function runs and its result is set.
cached(c, prefix, args, result) ==
    LET key == make_key(prefix, args)
    IN  UNION {IF got.ret # None
               THEN {[cache |-> got.cache, ret |-> got.ret, executed |-> FALSE]}
               ELSE {[cache |-> [put.cache EXCEPT !.executions = @ + 1],
                      ret |-> result, executed |-> TRUE] :
                        put \in cache_set(got.cache, key, result)} :
                 got \in cache_get(c, key)}

\* The wrapper of invalidate_cache(*prefixes): the function runs, then
\* clear_prefix is called for each prefix in turn.
invalidate_cache(c, prefixes, result) ==
    LET cleared[k \in 0..Len(prefixes)] ==
            IF k = 0 THEN {[c EXCEPT !.executions = @ + 1]}
            ELSE {[o.cache EXCEPT !.invalidated = @ \cup {prefixes[k]}] :
                     o \in UNION {clear_prefix(c1, prefixes[k]) : c1 \in cleared[k - 1]}}
    IN  {[cache |-> c2, ret |-> result, executed |-> TRUE] :
            c2 \in cleared[Len(prefixes)]}

\* A call made on the service, and what it answered.
Answered(op, o, executed) ==
    /\ cache' = [o.cache EXCEPT !.requests = cache.requests + 1,
                                !.last = [op |-> op, ret |-> o.ret, executed |-> executed]]
    /\ UNCHANGED <<graphVars, imports, apiVars, scriptVars, lastRead,
                   ranSinceChange, nlq>>

\* ------------------------------------------- nlq.py and nlq_service.py
\* A question is a sequence of words.
Vocabulary == {"most", "influential", "top", "bottlenecks", "Popular", "asdfghjkl"}
Questions == UNION {[1..k -> Vocabulary] : k \in 0..MaxWords}

\* query.lower(), word by word
Lower(word) == IF word = "Popular" THEN "popular" ELSE word

\* `stem in word` for the words of the vocabulary
WordHas(word, stem) == word = stem \/ <<word, stem>> = <<"bottlenecks", "bottleneck">>

\* QUERY_PATTERNS, in the order of the dictionary
PatternNames ==
    <<"most influential", "top bottlenecks", "largest community", "bridge users",
      "most connected", "isolated users", "community connections">>
PatternWords ==
    <<<<"most", "influential">>, <<"top", "bottlenecks">>, <<"largest", "community">>,
      <<"bridge", "users">>, <<"most", "connected">>, <<"isolated", "users">>,
      <<"community", "connections">>>>

\* `pattern_key in query_lower`: the two words of the key, one after the other
HasPhrase(query, words) ==
    \E i \in 1..(Len(query) - 1) :
        Lower(query[i]) = words[1] /\ Lower(query[i + 1]) = words[2]

\* any(word in query_lower for word in [...])
HasAny(query, stems) ==
    \E i \in DOMAIN query, stem \in stems : WordHas(Lower(query[i]), stem)

match_query_pattern(query) ==
    LET hits == {k \in DOMAIN PatternNames : HasPhrase(query, PatternWords[k])}
    IN  IF hits # {}
        THEN PatternNames[CHOOSE k \in hits : \A h \in hits : k <= h]
        ELSE IF HasAny(query, {"influential", "important", "powerful"})
        THEN "most influential"
        ELSE IF HasAny(query, {"bottleneck", "critical", "bridge"})
        THEN "top bottlenecks"
        ELSE IF HasAny(query, {"community", "group", "cluster"})
        THEN "largest community"
        ELSE IF HasAny(query, {"connected", "popular", "followers"})
        THEN "most connected"
        ELSE None

NoAnswer ==
    [http |-> 0, query |-> <<>>, generated_cypher |-> None, confidence |-> 0,
     used_llm |-> FALSE, search |-> None]

\* natural_language_query.  `available` is nlq_service.is_available(),
\* `generated` what generate_cypher returns (a query or None), `fault` what
\* execute_query raises.  The rows returned are not part of the answer kept.
natural_language_query(query, use_llm, available, generated, fault) ==
    LET byLlm == use_llm /\ available /\ generated # None
        pattern == match_query_pattern(query)
        cypher == IF byLlm THEN generated
                  ELSE IF pattern # None THEN pattern ELSE "generic user search"
        confidence == IF byLlm THEN 850 ELSE IF pattern # None THEN 900 ELSE 500
        \* request.query.split()[-1]: IndexError on a question without a word
        raises == fault # "none" \/ (confidence < 600 /\ Len(query) = 0)
    IN  /\ nlq' = IF raises
                  THEN [NoAnswer EXCEPT !.http = 400, !.query = query]
                  ELSE [http |-> 200, query |-> query, generated_cypher |-> cypher,
                        confidence |-> confidence, used_llm |-> byLlm,
                        search |-> IF confidence < 600 THEN query[Len(query)] ELSE ""]
        /\ UNCHANGED <<graphVars, imports, apiVars, scriptVars, lastRead,
                       ranSinceChange, cache>>

NaturalLanguageQuery ==
    \E query \in Questions, use_llm \in BOOLEAN, available \in BOOLEAN,
       generated \in {None, "llm query"}, fault \in {"none"} \cup Faults :
        natural_language_query(query, use_llm, available, generated, fault)

\* ------------------------------------------------------- specification
Init ==
    /\ nodes = {}
    /\ follows = [e \in NodeIds \X NodeIds |-> 0]
    /\ store = [n \in NodeIds |-> NoProps]
    /\ imports = 0
    /\ algQueries = 0
    /\ resp = NoResponse
    /\ params = DefaultParams
    /\ scriptPc = 0
    /\ scriptStatus = "idle"
    /\ printed = <<>>
    /\ lastRead = [at |-> 0, users |-> <<>>]
    /\ ranSinceChange = {}
    /\ cache = NewCache
    /\ nlq = NoAnswer

ImportUsers ==
    /\ imports < MaxImports
    /\ \E n \in ImportIds, fc \in FollowingCounts : import_users(n, fc)

ImportEdges ==
    /\ imports < MaxImports
    /\ \E e \in EdgeInputs : import_edges(e[1], e[2])

\* The query budget of a run: a request that is turned away runs no query.
WithinBudget(name, max) ==
    name \in AVAILABLE_ALGORITHMS => algQueries + QueriesOf(name) <= max

RunAlgorithm ==
    \E name \in RequestNames, fault \in {"none"} \cup Faults :
        /\ WithinBudget(name, MaxAlgQueries)
        /\ run_algorithm(name, fault)

RunAlgorithmBesideScript ==
    \E name \in RequestNames, fault \in {"none"} \cup Faults :
        /\ WithinBudget(name, MaxConcurrentQueries)
        /\ run_algorithm(name, fault)

GetUser == \E user_id \in ImportIds : get_user(user_id)

\* A request with query parameters.
RunAlgorithmWith ==
    \E name \in RequestNames, write_property \in BOOLEAN,
       sample_size \in SampleSizes, fault \in {"none"} \cup Faults :
        /\ WithinBudget(name, MaxParamQueries)
        /\ run_algorithm_request(name, write_property, sample_size, fault)

\* The API server called with query parameters, and the ingestion scripts.
NextParams ==
    \/ ImportUsers
    \/ ImportEdges
    \/ RunAlgorithmWith

SpecParams == Init /\ [][NextParams]_vars

\* The API server and the ingestion scripts.
NextApi ==
    \/ ImportUsers
    \/ ImportEdges
    \/ RunAlgorithm

SpecApi == Init /\ [][NextApi]_vars

\* The batch script, the ingestion scripts and a reader.
NextBatch ==
    \/ ImportUsers
    \/ ImportEdges
    \/ script_step
    \/ script_raise
    \/ GetUser

SpecBatch == Init /\ [][NextBatch]_vars

\* ------------------------------------------------- the sample database
\* init_db.py: eight users, two triangles (1 2 3), (4 5 6) and a pair (7 8),
\* every FOLLOWS inside a group in both directions.
Groups == {{1, 2, 3}, {4, 5, 6}, {7, 8}}

GroupFollows ==
    {<<1, 2>>, <<2, 1>>, <<1, 3>>, <<3, 1>>, <<2, 3>>, <<3, 2>>,
     <<4, 5>>, <<5, 4>>, <<4, 6>>, <<6, 4>>, <<5, 6>>, <<6, 5>>,
     <<7, 8>>, <<8, 7>>}

\* user 2 bridges the first two groups and user 6 the last two: a chain
ChainFollows == GroupFollows \cup {<<2, 4>>, <<4, 2>>, <<6, 7>>, <<7, 6>>}

SampleFollowing == <<300, 150, 400, 200, 500, 350, 180, 600>>

\* A hub that follows, and is followed by, every other user but the last.
Hub == 1
StarFollows ==
    {e \in NodeIds \X NodeIds :
        /\ e[1] # e[2]
        /\ Hub \in {e[1], e[2]}
        /\ SampleUsers \notin {e[1], e[2]}}

\* The hub follows every other user but the last, and user 2 follows back.
HubFollows ==
    {e \in StarFollows : e[1] = Hub} \cup {<<2, Hub>>}

\* The files import_data.py is given: one users file, and edges files.
UsersFile == {[id |-> n, following_count |-> SampleFollowing[n]] : n \in NodeIds}
EdgesFiles == {HubFollows, StarFollows}

\* import_users over a whole file: one UNWIND ... MERGE ... SET statement
import_users_file(rows) ==
    LET ids == {r.id : r \in rows}
    IN  /\ imports' = imports + 1
        /\ nodes' = nodes \cup ids
        /\ store' = [n \in NodeIds |->
                       IF n \in ids
                       THEN [store[n] EXCEPT !.following_count =
                               (CHOOSE r \in rows : r.id = n).following_count]
                       ELSE store[n]]
        /\ ranSinceChange' = IF ids \subseteq nodes THEN ranSinceChange ELSE {}
        /\ UNCHANGED <<follows, apiVars, scriptVars, lastRead, serviceVars>>

\* import_edges over a whole file: one UNWIND ... MATCH MATCH MERGE statement
import_edges_file(rows) ==
    /\ imports' = imports + 1
    /\ follows' = [e \in NodeIds \X NodeIds |->
                     IF e \in rows /\ e[1] \in nodes /\ e[2] \in nodes /\ follows[e] = 0
                     THEN 1 ELSE follows[e]]
    /\ ranSinceChange' = IF follows' = follows THEN ranSinceChange ELSE {}
    /\ UNCHANGED <<nodes, store, apiVars, scriptVars, lastRead, serviceVars>>

ImportUsersFile ==
    /\ imports < MaxImports
    /\ import_users_file(UsersFile)

ImportEdgesFile ==
    /\ imports < MaxImports
    /\ \E rows \in EdgesFiles : import_edges_file(rows)

RunAlgorithmOnFiles ==
    \E name \in RequestNames, fault \in {"none"} \cup Faults :
        /\ WithinBudget(name, MaxFileQueries)
        /\ run_algorithm(name, fault)

ImportChain ==
    /\ imports < MaxImports
    /\ import_edges_file(ChainFollows)

RunLouvain ==
    \E fault \in {"none"} \cup Faults :
        /\ WithinBudget("louvain", MaxChainQueries)
        /\ run_algorithm("louvain", fault)

\* Community detection over the chain.
NextChain ==
    \/ ImportUsersFile
    \/ ImportChain
    \/ RunLouvain

SpecChain == Init /\ [][NextChain]_vars

\* The API server over whole imported files.
NextFiles ==
    \/ ImportUsersFile
    \/ ImportEdgesFile
    \/ RunAlgorithmOnFiles

SpecFiles == Init /\ [][NextFiles]_vars

\* The database after import_data.py imported the users and the FOLLOWS of
\* one group of the sample.
InitGroup ==
    /\ \E grp \in Groups :
          /\ nodes = grp
          /\ follows = [e \in NodeIds \X NodeIds |->
                          IF e \in GroupFollows /\ e[1] \in grp THEN 1 ELSE 0]
          /\ store = [n \in NodeIds |->
                        IF n \in grp
                        THEN [NoProps EXCEPT !.following_count = SampleFollowing[n]]
                        ELSE NoProps]
    /\ imports = 0
    /\ algQueries = 0
    /\ resp = NoResponse
    /\ params = DefaultParams
    /\ scriptPc = 0
    /\ scriptStatus = "idle"
    /\ printed = <<>>
    /\ lastRead = [at |-> 0, users |-> <<>>]
    /\ ranSinceChange = {}
    /\ cache = NewCache
    /\ nlq = NoAnswer

\* The batch script over one group of the sample.
NextGroup ==
    \/ script_step
    \/ script_raise

SpecGroup == InitGroup /\ [][NextGroup]_vars

\* ------------------------------------------------ the ingestion scripts
\* init_db.py: MERGE of the eight users, MERGE of the FOLLOWS of the chain and
\* of 3 -> 8 between users that exist, then the three community labels
\* 'community_a', 'community_b', 'community_c', which are no user's id.
InitDbFollows == ChainFollows \cup {<<3, 8>>}
CommunityLabel(n) ==
    CASE n \in {1, 2, 3} -> SampleUsers + 1
      [] n \in {4, 5, 6} -> SampleUsers + 2
      [] n \in {7, 8} -> SampleUsers + 3

init_database ==
    /\ imports' = imports + 1
    /\ nodes' = NodeIds
    /\ follows' = [e \in NodeIds \X NodeIds |->
                     IF e \in InitDbFollows /\ follows[e] = 0 THEN 1 ELSE follows[e]]
    /\ store' = [n \in NodeIds |->
                   [store[n] EXCEPT !.following_count = SampleFollowing[n],
                                    !.community_id = CommunityLabel(n)]]
    /\ ranSinceChange' = {}
    /\ UNCHANGED <<apiVars, scriptVars, lastRead, serviceVars>>

\* import_data.py --sample: MERGE of the generated users, then MERGE of the
\* generated FOLLOWS, which never join a user to itself and hold no pair twice.
generate_sample_data(users, fc, edges) ==
    /\ imports' = imports + 1
    /\ nodes' = nodes \cup users
    /\ store' = [n \in NodeIds |->
                   IF n \in users THEN [store[n] EXCEPT !.following_count = fc]
                   ELSE store[n]]
    /\ follows' = [e \in NodeIds \X NodeIds |->
                     IF e \in edges /\ e[1] \in nodes' /\ e[2] \in nodes' /\ follows[e] = 0
                     THEN 1 ELSE follows[e]]
    /\ ranSinceChange' = {}
    /\ UNCHANGED <<apiVars, scriptVars, lastRead, serviceVars>>

\* import_twitter_data.py: MATCH (n) DETACH DELETE n under --clear, CREATE of
\* one User per row of users.csv, then, for each row of edges.csv whose two
\* ends are found, CREATE of one more FOLLOWS whatever is there already.
import_twitter_data(clear, users, fc, edges) ==
    LET kept == IF clear THEN {} ELSE nodes
    IN  /\ imports' = imports + 1
        /\ nodes' = kept \cup users
        /\ store' = [n \in NodeIds |->
                       IF n \in users THEN [NoProps EXCEPT !.following_count = fc]
                       ELSE IF n \in kept THEN store[n]
                       ELSE NoProps]
        /\ follows' = [e \in NodeIds \X NodeIds |->
                         (IF clear THEN 0 ELSE follows[e])
                         + (IF e \in edges /\ e[1] \in nodes' /\ e[2] \in nodes'
                            THEN 1 ELSE 0)]
        /\ ranSinceChange' = {}
        /\ UNCHANGED <<apiVars, scriptVars, lastRead, serviceVars>>

InitDatabase ==
    /\ imports < MaxImports
    /\ init_database

\* an edges file may name any two users, the same one twice included
IngestEdges ==
    /\ imports < MaxImports
    /\ \E s \in ImportIds, t \in ImportIds : import_edges(s, t)

GenerateSampleData ==
    /\ imports < MaxImports
    /\ \E fc \in FollowingCounts, edges \in SUBSET EdgeInputs :
          generate_sample_data(ImportIds, fc, edges)

\* users.csv holds users the database does not hold yet: CREATE makes no
\* second node for an id here.
ImportTwitterData ==
    /\ imports < MaxImports
    /\ \E clear \in BOOLEAN, users \in SUBSET ImportIds, fc \in FollowingCounts,
          edges \in SUBSET (ImportIds \X ImportIds) :
          /\ users \cap (IF clear THEN {} ELSE nodes) = {}
          /\ import_twitter_data(clear, users, fc, edges)

\* The ingestion scripts run one after another, in any order.
NextIngest ==
    \/ InitDatabase
    \/ ImportUsers
    \/ IngestEdges
    \/ GenerateSampleData
    \/ ImportTwitterData

SpecIngest == Init /\ [][NextIngest]_vars

\* ------------------------------------------------- the cache's callers
CacheGet ==
    /\ cache.requests < MaxCacheCalls
    /\ \E key \in CacheKeys : \E o \in cache_get(cache, key) : Answered("get", o, FALSE)

CacheSet ==
    /\ cache.requests < MaxCacheCalls
    /\ \E key \in CacheKeys, value \in Values :
          \E o \in cache_set(cache, key, value) : Answered("set", o, FALSE)

CacheDelete ==
    /\ cache.requests < MaxCacheCalls
    /\ \E key \in CacheKeys :
          \E o \in cache_delete(cache, key) : Answered("delete", o, FALSE)

ClearPrefix ==
    /\ cache.requests < MaxCacheCalls
    /\ \E prefix \in Prefixes :
          \E o \in clear_prefix(cache, prefix) : Answered("clear_prefix", o, FALSE)

ClearAll ==
    /\ cache.requests < MaxCacheCalls
    /\ \E o \in clear_all(cache) : Answered("clear_all", o, FALSE)

CallCached ==
    /\ cache.requests < MaxCacheCalls
    /\ \E prefix \in Prefixes, args \in CallArgs, result \in Values :
          \E o \in cached(cache, prefix, args, result) :
              Answered("cached", o, o.executed)

CallInvalidating ==
    /\ cache.requests < MaxCacheCalls
    /\ \E prefixes \in UNION {[1..k -> Prefixes] : k \in 0..2}, result \in Values :
          \E o \in invalidate_cache(cache, prefixes, result) :
              Answered("invalidate_cache", o, o.executed)

\* Any caller of a freshly constructed cache_service.
NextCache ==
    \/ CacheGet
    \/ CacheSet
    \/ CacheDelete
    \/ ClearPrefix
    \/ ClearAll
    \/ CallCached
    \/ CallInvalidating

SpecCache == Init /\ [][NextCache]_vars

\* The natural-language endpoint.
NextNlq ==
    \/ NaturalLanguageQuery

SpecNlq == Init /\ [][NextNlq]_vars

\* The batch script beside the API server.
Next ==
    \/ ImportUsers
    \/ ImportEdges
    \/ RunAlgorithmBesideScript
    \/ script_step
    \/ script_raise

Spec == Init /\ [][Next]_vars

\* ------------------------------------------------------------ properties
AnyFault == {"none"} \cup Faults

\* C1: at most one run writes the computed attributes at a time: while the
\* batch script is between its first and its last statement, no run_algorithm
\* call changes a node attribute (it waits, or fails with PipelineBusy).
C1_SingleWriter ==
    [][~(scriptStatus = "running" /\ algQueries' # algQueries /\ store' # store)]_vars

\* C2: a read that runs while the script's PageRank stage is under way (after
\* its first statement, before its last) shows, for every node, the pagerank
\* from before the run (none: nothing but the script writes pagerank here) or
\* the pagerank the stage has committed when it ends, never an iteration's.
C2_ReaderIsolation ==
    ( /\ algQueries = 0
      /\ scriptPc >= PageRankLastAt
      /\ lastRead.at >= PageRankInitAt
      /\ lastRead.at < PageRankLastAt )
    => \A i \in DOMAIN lastRead.users :
          lastRead.users[i].props.pagerank
             \in {Null, store[lastRead.users[i].id].pagerank}

\* The score the scoring statement gives a node that shows these properties.
ScoreShown(props) ==
    Composite(Normalised(props.betweenness_centrality,
                         MaxF([n \in NodeIds |-> store[n].betweenness_centrality], nodes)),
              Normalised(props.pagerank,
                         MaxF([n \in NodeIds |-> store[n].pagerank], nodes)),
              props.bridge_score)

\* C3: whatever get_top_bottlenecks returns, in any state, every node in it
\* shows a bottleneck_score that was computed from the pagerank and the
\* betweenness_centrality it shows, not from those of an older run.
C3_NoStaleScore ==
    \A limit \in 1..MaxNodes :
        \A top \in get_top_bottlenecks(limit) :
            \A i \in DOMAIN top :
                top[i].props.bottleneck_score = ScoreShown(top[i].props)

\* Some node lacks pagerank or betweenness_centrality.
MissingDependency ==
    \E n \in nodes : store[n].pagerank = Null \/ store[n].betweenness_centrality = Null

\* C4: a bottleneck run made while some node lacks pagerank or
\* betweenness_centrality returns status failed, never completed.
C4_MissingDependencyFails ==
    [][\A fault \in AnyFault :
          (MissingDependency /\ run_algorithm("bottleneck", fault))
             => resp'.status = "failed"]_vars

\* C5: a bottleneck run made while some node lacks pagerank or
\* betweenness_centrality writes bridge_score, bottleneck_score and
\* is_bottleneck on no node.
C5_AllOrNothing ==
    [][\A fault \in AnyFault :
          (MissingDependency /\ run_algorithm("bottleneck", fault))
             => \A n \in NodeIds :
                   /\ store'[n].bridge_score = store[n].bridge_score
                   /\ store'[n].bottleneck_score = store[n].bottleneck_score
                   /\ store'[n].is_bottleneck = store[n].is_bottleneck]_vars

\* C6: for every known algorithm name, run_algorithm answers with a result
\* (HTTP 200) whose status is completed or failed: when the stage's query
\* raises, the result is failed with nodes_processed 0, an empty summary and
\* the error text as message, and nothing was written; otherwise it is
\* completed.
C6_AlwaysAResult ==
    [][\A name \in AVAILABLE_ALGORITHMS, fault \in AnyFault :
          run_algorithm(name, fault) =>
             /\ resp'.http = 200
             /\ resp'.algorithm = name
             /\ resp'.status \in {"completed", "failed"}
             /\ fault # "none" =>
                   /\ resp'.status = "failed"
                   /\ resp'.nodes_processed = 0
                   /\ resp'.results_summary = EmptySummary
                   /\ resp'.message = fault
                   /\ store' = store
             /\ fault = "none" => resp'.status = "completed"]_vars

\* A stage's query has raised over a graph that has nodes.
C6_FailedRun ==
    /\ nodes # {}
    /\ resp.status = "failed"
    /\ resp.message \in Faults
    /\ algQueries > 0

\* C7: a request whose name is not a known algorithm is answered 400 before
\* anything is dispatched: no query runs and the graph is as it was.
C7_UnknownNameRejected ==
    [][\A name \in RequestNames \ AVAILABLE_ALGORITHMS, fault \in AnyFault :
          run_algorithm(name, fault) =>
             /\ resp'.http = 400
             /\ resp'.status \notin {"completed", "failed"}
             /\ algQueries' = algQueries
             /\ graphVars' = graphVars]_vars

\* An unknown name was turned away after stages had run over a graph with nodes.
C7_Rejected ==
    /\ resp.http = 400
    /\ resp.algorithm \notin AVAILABLE_ALGORITHMS
    /\ algQueries > 0
    /\ nodes # {}

\* The stages the script has announced as done, in the order it did.
StageOfLine(line) ==
    CASE line = "PageRank done!" -> "pagerank"
      [] line = "Communities done!" -> "louvain"
      [] line = "Betweenness done!" -> "betweenness"
      [] line = "Bottleneck scores done!" -> "bottleneck"
      [] OTHER -> ""

CompletedStages(lines) ==
    LET done == SelectSeq(lines, LAMBDA l : StageOfLine(l) # "")
    IN  [i \in 1..Len(done) |-> StageOfLine(done[i])]

IsPrefix(s, t) == Len(s) <= Len(t) /\ \A i \in 1..Len(s) : s[i] = t[i]

Lines(seq) == {seq[i] : i \in 1..Len(seq)}

\* C8 as stated: the stages of a full run complete in the order
\* DegreeCentrality, PageRank, ApproximateBetweenness, CommunityDetector,
\* BottleneckScorer.
C8_StatedOrder ==
    IsPrefix(CompletedStages(printed),
             <<"degree", "pagerank", "betweenness", "louvain", "bottleneck">>)

\* C8, amended: the stages of a full run complete in the order PageRank,
\* CommunityDetector, ApproximateBetweenness, BottleneckScorer (there is no
\* DegreeCentrality stage), and the scoring statement runs only after
\* PageRank, CommunityDetector and ApproximateBetweenness were all reported
\* done in the same run.
C8_ScriptOrder ==
    [][script_step =>
          /\ IsPrefix(CompletedStages(printed'),
                      <<"pagerank", "louvain", "betweenness", "bottleneck">>)
          /\ ScriptStatement(scriptPc') = "bottleneck" =>
                {"PageRank done!", "Communities done!", "Betweenness done!"}
                   \subseteq Lines(printed)]_vars

\* The scoring statement has run and left a score.
C8_Scored ==
    /\ scriptPc = BottleneckAt
    /\ "Bottleneck scores done!" \in Lines(printed)
    /\ \E n \in nodes : store[n].bottleneck_score # Null

\* The attributes the stages compute.
Computed(props) == [props EXCEPT !.following_count = Null]

\* C9: when a statement of the script raises, the statement leaves the graph
\* as it was, no later statement runs, and every computed attribute keeps the
\* value the earlier statements committed.
C9_PartialResultsKept ==
    [][/\ (scriptStatus # "failed" /\ scriptStatus' = "failed") =>
             /\ store' = store
             /\ scriptPc' = scriptPc
       /\ scriptStatus = "failed" =>
             /\ scriptVars' = scriptVars
             /\ \A n \in NodeIds : Computed(store'[n]) = Computed(store[n])]_vars

\* The script failed after its PageRank stage had committed.
C9_FailedAfterPageRank ==
    /\ scriptStatus = "failed"
    /\ scriptPc >= PageRankLastAt
    /\ scriptPc < StatsAt
    /\ \E n \in nodes : store[n].pagerank # Null

\* C10: a node has a bottleneck_score only if PageRank, betweenness and
\* community detection have each completed since a node or a relationship
\* was last created.
C10_ScoreNeedsFreshStages ==
    \A n \in nodes :
        store[n].bottleneck_score # Null => Prerequisites \subseteq ranSinceChange

\* C11: for a fixed graph, a second full run of the script leaves every node
\* with the values the first run left: when a run has ended, the only store a
\* run started right then can end with is the one at hand.
C11_RepeatableRun ==
    (scriptStatus = "done" /\ imports = 0) => ScriptRun(store) = {store}

\* C12: is_bottleneck is one threshold function of bottleneck_score whichever
\* path computes it: a scoring run that leaves a node's bottleneck_score as it
\* was leaves its is_bottleneck as it was.
C12_OneThreshold ==
    [][\A n \in nodes :
          ( /\ store[n].bottleneck_score # Null
            /\ store'[n].bottleneck_score = store[n].bottleneck_score )
          => store'[n].is_bottleneck = store[n].is_bottleneck]_vars

Min(a, b) == IF a <= b THEN a ELSE b

\* C13: a scoring run leaves every node it scores with bridge_score =
\* min(bridged, 5) / 5, bridged being the number of distinct communities other
\* than its own among its neighbours before the run; so the score stays within
\* [0, 1] however many communities the node touches.
C13_BridgeScoreCapped ==
    [][\A u \in nodes :
          store'[u].bridge_score # store[u].bridge_score
          => /\ store'[u].bridge_score =
                   Div(Min(BridgedCommunities(store, u), MaxBridged) * Scale, MaxBridged)
             /\ store'[u].bridge_score >= 0
             /\ store'[u].bridge_score <= Scale]_vars

\* C14: every scored node has 0 <= bottleneck_score <= 1.
C14_ScoreInUnitInterval ==
    \A u \in nodes :
        store[u].bottleneck_score # Null
        => /\ store[u].bottleneck_score >= 0
           /\ store[u].bottleneck_score <= Scale


\* The step is a run of stage `name` that completed.
Ran(name) ==
    /\ algQueries' # algQueries
    /\ resp'.algorithm = name
    /\ resp'.status = "completed"

\* C15: a degree run leaves every node, isolated ones included, with
\* out_degree = the number of FOLLOWS it is the source of, in_degree = the
\* number of FOLLOWS it is the target of, and degree_centrality = their sum:
\* matching both directions at once does not count a relationship twice.
C15_DegreeCounts ==
    [][Ran("degree") =>
          \A u \in nodes :
              /\ store'[u].out_degree = OutRels(u)
              /\ store'[u].in_degree = InRels(u)
              /\ store'[u].degree_centrality =
                    (store'[u].out_degree + store'[u].in_degree) * Scale]_vars

\* The degree stage has run over a node with several relationships in each
\* direction and over an isolated node.
C15_DegreeOfHub ==
    /\ resp.algorithm = "degree"
    /\ resp.status = "completed"
    /\ \E u \in nodes :
          /\ OutRels(u) > 1 /\ InRels(u) > 1
          /\ store[u].out_degree = OutRels(u)
          /\ store[u].in_degree = InRels(u)
    /\ \E u \in nodes :
          /\ Neighbours(u) = {}
          /\ store[u].degree_centrality = 0

\* out * in / (out + in)^2, 0 when out + in = 0
QuadraticForm(out, in) ==
    IF out + in > 0 THEN (out * in * Scale) \div ((out + in) * (out + in)) ELSE 0

\* C16: a betweenness run, and any step that changes a node's
\* betweenness_centrality, leaves the node with out * in / (out + in)^2 over
\* the FOLLOWS it is the source and the target of (0 when it has none), a
\* value between 0 and 0.25 since 4 * out * in <= (out + in)^2.
C16_BetweennessForm ==
    [][\A u \in nodes :
          (Ran("betweenness")
             \/ store'[u].betweenness_centrality # store[u].betweenness_centrality)
          => LET out == OutRels(u)
                 in == InRels(u)
             IN  /\ store'[u].betweenness_centrality = QuadraticForm(out, in)
                 /\ store'[u].betweenness_centrality >= 0
                 /\ 4 * store'[u].betweenness_centrality <= Scale
                 /\ 4 * out * in <= (out + in) * (out + in)]_vars

\* The betweenness stage has run over a node with unequal in and out counts,
\* a node at the maximum 0.25 and an isolated node.
C16_UnevenHub ==
    /\ resp.algorithm = "betweenness"
    /\ resp.status = "completed"
    /\ \E u \in nodes :
          /\ OutRels(u) > InRels(u) /\ InRels(u) > 0
          /\ store[u].betweenness_centrality = QuadraticForm(OutRels(u), InRels(u))
          /\ store[u].betweenness_centrality > 0
    /\ \E u \in nodes : 4 * store[u].betweenness_centrality = Scale
    /\ \E u \in nodes : Neighbours(u) = {} /\ store[u].betweenness_centrality = 0

\* C17: when the PageRank stage completes over a graph that has nodes, through
\* the API or as the last PageRank statement of the script, every node, one
\* without followers included, has a pagerank, and it is at least 1 - damping.
C17_PageRankFloor ==
    [][( /\ nodes # {}
         /\ \/ Ran("pagerank")
            \/ scriptPc # PageRankLastAt /\ scriptPc' = PageRankLastAt )
       => \A u \in nodes :
             /\ store'[u].pagerank # Null
             /\ store'[u].pagerank >= Scale - 10 * DampingPct]_vars

\* Both PageRank stages have completed, over a node nobody follows, left at
\* the floor, and a node with a follower, left above it.
C17_RankedWithoutFollowers ==
    /\ resp.algorithm = "pagerank"
    /\ resp.status = "completed"
    /\ scriptPc >= PageRankLastAt
    /\ \E u \in nodes : InRels(u) = 0 /\ store[u].pagerank = Scale - 10 * DampingPct
    /\ \E u \in nodes : InRels(u) > 0 /\ store[u].pagerank > Scale - 10 * DampingPct

\* C18: community detection over the eight users of the chain (two triangles
\* and a pair, joined by 2 - 4 and 6 - 7) ends with exactly three distinct
\* community_id values, the members of a group sharing one.
C18_ThreeCommunities ==
    [][( /\ Ran("louvain")
         /\ nodes = NodeIds
         /\ \A e \in NodeIds \X NodeIds :
               follows[e] = IF e \in ChainFollows THEN 1 ELSE 0 )
       => /\ Cardinality({store'[u].community_id : u \in nodes}) = 3
          /\ \A grp \in Groups : \A u, v \in grp :
                store'[u].community_id = store'[v].community_id]_vars

\* C19: whatever ingestion scripts have run, FOLLOWS holds at most one
\* relationship from one user to another, and none from a user to itself.
C19_FollowsIsASet ==
    \A s \in NodeIds, t \in NodeIds :
        /\ follows[<<s, t>>] <= 1
        /\ follows[<<s, s>>] = 0

\* C20: importing a FOLLOWS row one end of which is no existing user is
\* rejected: the importer does not count the row's batch among those it
\* imported, and the graph is left as it was.
C20_UnknownEndRejected ==
    [][\A s \in ImportIds, t \in ImportIds :
          (import_edges(s, t) /\ ~(s \in nodes /\ t \in nodes))
          => /\ imports' = imports
             /\ graphVars' = graphVars]_vars

\* A stage of the script has made its first statement and not yet its last.
StageUnderWay ==
    /\ scriptStatus = "running"
    /\ \/ scriptPc >= PageRankInitAt /\ scriptPc < PageRankLastAt
       \/ scriptPc >= LabelInitAt /\ scriptPc < LabelLastAt

\* C21: while a stage is under way no node and no FOLLOWS relationship is
\* added or removed: the import fails with GraphLocked or waits for the run,
\* so the graph a stage computes on does not change under it.
C21_GraphLockedUnderStage ==
    [][StageUnderWay => (nodes' = nodes /\ follows' = follows)]_vars


\* C22: a run_algorithm call that completes is followed, within the call, by
\* an invalidation of the cache (clear_prefix is called on the cache service);
\* a call that fails invalidates nothing.
C22_InvalidatedAfterCommit ==
    [][\A name \in AVAILABLE_ALGORITHMS :
          /\ Ran(name) =>
                /\ cache'.requests > cache.requests
                /\ cache'.invalidated # {}
          /\ (algQueries' # algQueries /\ resp'.status = "failed") =>
                cache'.invalidated = cache.invalidated]_vars


\* C23: when no LLM is available and the question matches no known pattern,
\* the natural-language endpoint answers 400, never a successful result.
C23_UnknownQuestionRejected ==
    [][\A query \in Questions, use_llm \in BOOLEAN,
         generated \in {None, "llm query"}, fault \in AnyFault :
          ( /\ match_query_pattern(query) = None
            /\ natural_language_query(query, use_llm, FALSE, generated, fault) )
          => nlq'.http = 400]_vars


\* The reference PageRank: every node starts at 1 / N; a pass gives u
\* (1 - damping) + damping * the sum, over the nodes v that follow u, of
\* rank(v) / max(out_degree(v), 1), read from the ranks of the pass before.
default_page_rank_iterations == 20
ReferenceOutDegree(v) == Cardinality({t \in nodes : Mult(v, t) > 0})
ReferencePass(rank) ==
    [u \in NodeIds |->
        (Scale - 10 * DampingPct)
        + Div(DampingPct
                * SumF([v \in NodeIds |->
                          Div(rank[v], IF ReferenceOutDegree(v) > 1
                                       THEN ReferenceOutDegree(v) ELSE 1)],
                       {v \in nodes : Mult(v, u) > 0}),
              100)]
ReferencePageRank ==
    LET after[k \in 0..default_page_rank_iterations] ==
            IF k = 0 THEN [u \in NodeIds |-> Div(Scale, Cardinality(nodes))]
            ELSE ReferencePass(after[k - 1])
    IN  after[default_page_rank_iterations]

\* C24: when the PageRank stage completes, through the API or as the last
\* PageRank statement of the script, every node's pagerank is the one the
\* reference computation gives after the configured 20 passes.
C24_ReferencePageRank ==
    [][(Ran("pagerank") \/ (scriptPc # PageRankLastAt /\ scriptPc' = PageRankLastAt))
       => \A u \in nodes : store'[u].pagerank = ReferencePageRank[u]]_vars


\* The reference label propagation: every node starts with its own id; in a
\* pass every node with neighbours takes a label carried by the largest
\* number of its neighbours, read from the labels of the pass before.
default_label_iterations == 10
ReferenceCarriers(labels, u, c) == Cardinality({v \in Neighbours(u) : labels[v] = c})
ReferenceDominant(labels, u) ==
    {c \in {labels[v] : v \in Neighbours(u)} :
        \A v \in Neighbours(u) :
            ReferenceCarriers(labels, u, labels[v]) <= ReferenceCarriers(labels, u, c)}
ReferenceLabelPass(labels) ==
    LET upTo[k \in 0..SampleUsers] ==
            IF k = 0 THEN {labels}
            ELSE IF k \in nodes /\ Neighbours(k) # {}
                 THEN {[l EXCEPT ![k] = c] :
                          l \in upTo[k - 1], c \in ReferenceDominant(labels, k)}
                 ELSE upTo[k - 1]
    IN  upTo[SampleUsers]
ReferenceLabellings ==
    LET after[p \in 0..default_label_iterations] ==
            IF p = 0 THEN {[n \in NodeIds |-> n]}
            ELSE UNION {ReferenceLabelPass(l) : l \in after[p - 1]}
    IN  after[default_label_iterations]

\* C25: when community detection completes, through the API or as the last
\* label statement of the script, the community_ids are a labelling the
\* reference label propagation can end with after the configured 10 passes.
C25_ReferenceLabels ==
    [][(Ran("louvain") \/ (scriptPc # LabelLastAt /\ scriptPc' = LabelLastAt))
       => \E l \in ReferenceLabellings :
             \A u \in nodes : store'[u].community_id = l[u]]_vars


\* C26: a bottleneck run leaves every node it scores with bottleneck_score =
\* 0.4 * normBetweenness + 0.3 * normPagerank + 0.3 * bridge_score, the weights
\* being the configured ones and summing to 1, and each norm being the node's
\* value over the largest value of any node (0 when that is 0), within [0, 1].
C26_WeightedSum ==
    [][Ran("bottleneck") =>
          LET w == bottleneck_score_weights
              maxBetweenness ==
                  MaxF([n \in NodeIds |-> store[n].betweenness_centrality], nodes)
              maxPagerank == MaxF([n \in NodeIds |-> store[n].pagerank], nodes)
          IN  /\ w.betweenness + w.pagerank + w.bridge_score = 10
              /\ \A u \in Scorable(store) :
                    LET normBetweenness ==
                            IF maxBetweenness > 0
                            THEN (store[u].betweenness_centrality * Scale)
                                    \div maxBetweenness
                            ELSE 0
                        normPagerank ==
                            IF maxPagerank > 0
                            THEN (store[u].pagerank * Scale) \div maxPagerank
                            ELSE 0
                    IN  /\ normBetweenness >= 0 /\ normBetweenness <= Scale
                        /\ normPagerank >= 0 /\ normPagerank <= Scale
                        /\ store'[u].bottleneck_score =
                              (w.betweenness * normBetweenness
                               + w.pagerank * normPagerank
                               + w.bridge_score * store'[u].bridge_score) \div 10]_vars

\* A bottleneck run has scored a node whose betweenness is below the largest
\* and above 0, and a node whose betweenness is 0.
C26_ScoredBelowMax ==
    /\ resp.algorithm = "bottleneck"
    /\ resp.status = "completed"
    /\ \E u \in nodes, v \in nodes :
          /\ store[u].bottleneck_score # Null
          /\ store[u].betweenness_centrality > 0
          /\ store[u].betweenness_centrality < store[v].betweenness_centrality
          /\ store[u].bottleneck_score > store[u].bridge_score
    /\ \E u \in nodes :
          /\ store[u].bottleneck_score # Null
          /\ store[u].betweenness_centrality = 0


\* The attributes a stage is there to compute.
Outputs(name) ==
    CASE name = "pagerank" -> {"pagerank"}
      [] name = "betweenness" -> {"betweenness_centrality"}
      [] name = "degree" -> {"out_degree", "in_degree", "degree_centrality"}
      [] name = "louvain" -> {"community_id"}
      [] name = "bottleneck" -> {"bridge_score", "bottleneck_score", "is_bottleneck"}

\* C27: a run_algorithm call changes, on every node, no attribute other than
\* the outputs of the stage it names, and leaves the node set and the FOLLOWS
\* relationships as they were.
C27_OnlyOwnOutputs ==
    [][\A name \in AVAILABLE_ALGORITHMS :
          (algQueries' # algQueries /\ resp'.algorithm = name)
          => /\ nodes' = nodes
             /\ follows' = follows
             /\ \A n \in NodeIds :
                   \A attr \in (DOMAIN NoProps) \ Outputs(name) :
                       store'[n][attr] = store[n][attr]]_vars

\* A betweenness run has completed over a node that had a pagerank and a
\* community_id, and no degree attributes, and still has them so.
C27_OthersKept ==
    /\ resp.algorithm = "betweenness"
    /\ resp.status = "completed"
    /\ \E n \in nodes :
          /\ store[n].betweenness_centrality # Null
          /\ store[n].pagerank # Null
          /\ store[n].community_id # Null
          /\ store[n].out_degree = Null
          /\ Neighbours(n) # {}


\* C28: when a community-detection run ends, through the API or as the last
\* label statement of the batch script, every node has a community_id that is
\* the id of some node, and a node without neighbours has its own id.
C28_EveryNodeLabelled ==
    [][(Ran("louvain") \/ (scriptPc # LabelLastAt /\ scriptPc' = LabelLastAt))
       => \A u \in nodes :
             /\ store'[u].community_id # Null
             /\ store'[u].community_id \in nodes
             /\ (Neighbours(u) = {} => store'[u].community_id = u)]_vars


\* The step is a completed run of stage `name` as the dispatch performs it
\* when called with these query parameters.
OutcomeWith(name, write_property, sample_size) ==
    \E o \in Dispatch(name, store, write_property, sample_size) :
        /\ store' = o.store
        /\ resp' = Completed(name, o.result)

\* C29: whatever write_property and sample_size a request carries, a
\* completed run performs the writes and returns the result fields of the
\* request with write_property = true and no sample_size, and the other way
\* round.
C29_ParametersIgnored ==
    [][\A name \in AVAILABLE_ALGORITHMS :
          Ran(name)
          => /\ OutcomeWith(name, params'.write_property, params'.sample_size)
             /\ \A write_property \in BOOLEAN, sample_size \in SampleSizes :
                   OutcomeWith(name, write_property, sample_size)
                   <=> OutcomeWith(name, DefaultParams.write_property,
                                   DefaultParams.sample_size)]_vars

\* The only run so far is a pagerank run that asked for no write over a
\* sample, and a node has the pagerank it wrote.
C29_WrittenAnyway ==
    /\ algQueries = QueriesOf("pagerank")
    /\ resp.algorithm = "pagerank"
    /\ resp.status = "completed"
    /\ params.write_property = FALSE
    /\ params.sample_size # Null
    /\ \E n \in nodes : store[n].pagerank # Null

\* C30: whatever is called on a freshly constructed cache service, it stays
\* disconnected and creates no Redis client: a get answers None, a set answers
\* False, and a function wrapped by cached runs on every call.
C30_NeverConnects ==
    /\ ~cache.connected
    /\ ~cache.client
    /\ \A k \in CacheKeys : cache.redis[k] = None
    /\ cache.last.op = "get" => cache.last.ret = None
    /\ cache.last.op = "set" => cache.last.ret = FALSE
    /\ cache.last.op = "cached" => cache.last.executed

\* A wrapped function has run again on a later call, after other calls.
C30_RanAgain ==
    /\ cache.requests = MaxCacheCalls
    /\ cache.last.op = "cached"
    /\ cache.last.executed
    /\ cache.executions >= 2

====
